---- MODULE Spec2Model ----
(***************************************************************************)
(* The tool-calling loop of the agent (core/agent.py) and the argument     *)
(* normalizer it uses (utils/json_clean.py).                               *)
(*                                                                         *)
(* Text is a sequence of tokens: a brace, a bracket, a comma, a colon, a   *)
(* string literal, a number literal, a word of prose, a code fence or a    *)
(* blank.  A Python value is a record tagged by its type in field t.       *)
(***************************************************************************)
EXTENDS Integers, Sequences, FiniteSets, TLC

\* ------------------------------------------------------------------------
\* Bounds of the model
\* ------------------------------------------------------------------------
MaxTurns == 1
MaxIds == 6
MaxHistIds == 10
MaxHistTurns == 7

\* ------------------------------------------------------------------------
\* Python values
\* ------------------------------------------------------------------------
PyNone == [t |-> "none"]
PyStr(s) == [t |-> "str", v |-> s]
PyNum(n) == [t |-> "num", v |-> n]
PyList(s) == [t |-> "list", v |-> s]
PyDict(f) == [t |-> "dict", v |-> f]
EmptyDict == PyDict(<<>>)
IsDict(x) == x.t = "dict"
IsList(x) == x.t = "list"
DictPut(f, k, x) == [y \in (DOMAIN f) \cup {k} |-> IF y = k THEN x ELSE f[y]]
DictGet(d, k, default) == IF k \in DOMAIN d.v THEN d.v[k] ELSE default

\* ------------------------------------------------------------------------
\* Tokens of text
\* ------------------------------------------------------------------------
StrToks == {"\"action\"", "\"write\"", "\"read\"", "\"content\"", "\"hi\"", "\"hello\""}
NumToks == {"3", "4"}
Blank == " "
Fence == "FENCE"
WordToks == {"not", "json", "at", "all"}
PunctToks == {"{", "}", "[", "]", ",", ":"}
\* A string whose text holds braces or fences is spelled token by token
\* between two quote marks, so that the patterns of the normalizer see
\* what is in it; any other string is one token.
DQuote == "\""
FencedText == "\"FENCE{}FENCE\""
BracedText == "\"{}\""
LongStrs == {FencedText, BracedText}
Spelling(v) ==
    IF v = FencedText THEN <<DQuote, Fence, "{", "}", Fence, DQuote>>
    ELSE IF v = BracedText THEN <<DQuote, "{", "}", DQuote>>
    ELSE <<v>>

\* ------------------------------------------------------------------------
\* json.loads: the strict parser.  A parse step returns the value read and
\* the index of the first token after it, or ok = FALSE.
\* ------------------------------------------------------------------------
Min(S) == CHOOSE x \in S : \A y \in S : x <= y
Max(S) == CHOOSE x \in S : \A y \in S : x >= y
NoParse == [ok |-> FALSE, val |-> PyNone, next |-> 0]
Parsed(x, n) == [ok |-> TRUE, val |-> x, next |-> n]
\* the text without the blanks that are outside strings
SkipBlanks(s) ==
    LET InString(k) == Cardinality({q \in 1..(k - 1) : s[q] = DQuote}) % 2 = 1
        F[k \in 0..Len(s)] ==
            IF k = 0 THEN <<>>
            ELSE IF s[k] = Blank /\ ~InString(k) THEN F[k - 1]
            ELSE Append(F[k - 1], s[k])
    IN F[Len(s)]
\* the string literal that starts at token i
StringAt(s, i) ==
    IF i > Len(s) THEN NoParse
    ELSE IF s[i] \in StrToks THEN Parsed(PyStr(s[i]), i + 1)
    ELSE IF s[i] = DQuote THEN
        LET closes == {k \in (i + 1)..Len(s) : s[k] = DQuote}
        IN IF closes = {} THEN NoParse
           ELSE LET named == {v \in LongStrs : Spelling(v) = SubSeq(s, i, Min(closes))}
                IN IF named = {} THEN NoParse
                   ELSE Parsed(PyStr(CHOOSE v \in named : TRUE), Min(closes) + 1)
    ELSE NoParse

RECURSIVE ParseValue(_, _)
RECURSIVE ParseElems(_, _, _)
RECURSIVE ParseMembers(_, _, _)
ParseValue(s, i) ==
    IF i > Len(s) THEN NoParse
    ELSE IF s[i] \in StrToks \cup {DQuote} THEN StringAt(s, i)
    ELSE IF s[i] \in NumToks THEN Parsed(PyNum(s[i]), i + 1)
    ELSE IF s[i] = "[" THEN
        IF i + 1 <= Len(s) /\ s[i + 1] = "]" THEN Parsed(PyList(<<>>), i + 2)
        ELSE ParseElems(s, i + 1, <<>>)
    ELSE IF s[i] = "{" THEN
        IF i + 1 <= Len(s) /\ s[i + 1] = "}" THEN Parsed(EmptyDict, i + 2)
        ELSE ParseMembers(s, i + 1, <<>>)
    ELSE NoParse

ParseElems(s, i, acc) ==
    LET e == ParseValue(s, i) IN
    IF ~e.ok \/ e.next > Len(s) THEN NoParse
    ELSE IF s[e.next] = "]" THEN Parsed(PyList(Append(acc, e.val)), e.next + 1)
    ELSE IF s[e.next] = "," THEN ParseElems(s, e.next + 1, Append(acc, e.val))
    ELSE NoParse

ParseMembers(s, i, acc) ==
    LET key == StringAt(s, i) IN
    IF ~key.ok THEN NoParse
    ELSE IF key.next + 1 > Len(s) \/ s[key.next] # ":" THEN NoParse
    ELSE LET e == ParseValue(s, key.next + 1) IN
         IF ~e.ok \/ e.next > Len(s) THEN NoParse
         ELSE IF s[e.next] = "}"
              THEN Parsed(PyDict(DictPut(acc, key.val.v, e.val)), e.next + 1)
         ELSE IF s[e.next] = ","
              THEN ParseMembers(s, e.next + 1, DictPut(acc, key.val.v, e.val))
         ELSE NoParse

json_loads(text) ==
    LET s == SkipBlanks(text)
        r == ParseValue(s, 1)
    IN IF r.ok /\ r.next = Len(s) + 1 THEN r ELSE NoParse

\* ------------------------------------------------------------------------
\* json.dumps: the serializer, with its separators ", " and ": "
\* ------------------------------------------------------------------------
RECURSIVE json_dumps(_)
RECURSIVE DumpElems(_, _)
RECURSIVE DumpMembers(_, _)
json_dumps(x) ==
    IF x.t = "str" THEN Spelling(x.v)
    ELSE IF x.t = "num" THEN <<x.v>>
    ELSE IF x.t = "list" THEN <<"[">> \o DumpElems(x.v, 1) \o <<"]">>
    ELSE <<"{">> \o DumpMembers(x.v, DOMAIN x.v) \o <<"}">>
DumpElems(v, i) ==
    IF i > Len(v) THEN <<>>
    ELSE json_dumps(v[i]) \o (IF i < Len(v) THEN <<",", Blank>> ELSE <<>>)
            \o DumpElems(v, i + 1)
DumpMembers(f, K) ==
    IF K = {} THEN <<>>
    ELSE LET k == CHOOSE y \in K : TRUE
         IN Spelling(k) \o <<":", Blank>> \o json_dumps(f[k])
               \o (IF K \ {k} # {} THEN <<",", Blank>> ELSE <<>>)
               \o DumpMembers(f, K \ {k})

\* ------------------------------------------------------------------------
\* utils/json_clean.py
\* ------------------------------------------------------------------------
\* index of the first token at or after j that is not a blank (Len(s) + 1
\* when there is none): what the pattern \s* consumes
SkipWs(s, j) == Min({k \in j..Len(s) : s[k] # Blank} \cup {Len(s) + 1})

\* str.strip()
strip(s) ==
    LET keep == {k \in 1..Len(s) : s[k] # Blank}
    IN IF keep = {} THEN <<>> ELSE SubSeq(s, Min(keep), Max(keep))

\* re.search of FENCE (json)? \s* ( { .*? } ) \s* FENCE starting at token i:
\* the set of ends of the group, empty when the pattern does not match at i
FenceGroupStart(s, i) ==
    SkipWs(s, IF i + 1 <= Len(s) /\ s[i + 1] = "json" THEN i + 2 ELSE i + 1)
FenceGroupEnds(s, i) ==
    LET g == FenceGroupStart(s, i) IN
    IF s[i] # Fence \/ g > Len(s) THEN {}
    ELSE IF s[g] # "{" THEN {}
    ELSE {e \in (g + 1)..Len(s) :
            /\ s[e] = "}"
            /\ SkipWs(s, e + 1) <= Len(s)
            /\ s[SkipWs(s, e + 1)] = Fence}

extract_json_block(text) ==
    LET starts == {i \in 1..Len(text) : FenceGroupEnds(text, i) # {}}
        opens == {k \in 1..Len(text) : text[k] = "{"}
        closes == {k \in 1..Len(text) : text[k] = "}"}
    IN IF starts # {}
       THEN LET i == Min(starts)
            IN SubSeq(text, FenceGroupStart(text, i), Min(FenceGroupEnds(text, i)))
       ELSE IF opens # {} /\ closes # {} /\ Max(closes) > Min(opens)
       THEN SubSeq(text, Min(opens), Max(closes))
       ELSE text

\* The json_repair library (imported when installed).  It returns the strict
\* parse of well-formed text; otherwise it recovers what it can: the object
\* found in the text with its trailing commas dropped, or the empty string.
\* The caller also provides for it raising.
RepairRaises == [t |-> "raise"]
DropTrailingCommas(s) ==
    LET keep == {k \in 1..Len(s) :
                   ~(s[k] = "," /\ SkipWs(s, k + 1) <= Len(s)
                                /\ s[SkipWs(s, k + 1)] \in {"}", "]"})}
        F[k \in 0..Len(s)] ==
            IF k = 0 THEN <<>>
            ELSE IF k \in keep THEN Append(F[k - 1], s[k]) ELSE F[k - 1]
    IN F[Len(s)]
repair_json(raw_text) ==
    LET strict == json_loads(raw_text)
        lenient == json_loads(DropTrailingCommas(extract_json_block(raw_text)))
    IN IF strict.ok THEN strict.val
       ELSE IF lenient.ok THEN lenient.val
       ELSE PyStr("")
RepairOutcomes(raw_text) == {repair_json(raw_text), RepairRaises}

\* parse_json_from_llm(raw_text), given whether json_repair is installed and
\* what its call gives
parse_json_from_llm(raw_text, has_repair, repaired) ==
    IF raw_text = <<>> THEN EmptyDict
    ELSE IF has_repair /\ repaired # RepairRaises THEN
        IF IsDict(repaired) THEN repaired
        ELSE IF IsList(repaired) /\ Len(repaired.v) > 0 /\ IsDict(repaired.v[1])
        THEN repaired.v[1]
        ELSE EmptyDict
    ELSE LET clean_text == strip(extract_json_block(raw_text))
             res == json_loads(clean_text)
         IN IF res.ok THEN (IF IsDict(res.val) THEN res.val ELSE EmptyDict)
            ELSE EmptyDict

\* ------------------------------------------------------------------------
\* core/agent.py: the Agent
\* ------------------------------------------------------------------------
VARIABLES
    messages,         \* self.messages, the transcript
    pc,               \* where chat is: "idle" (not running), "loop", "tools"
    iteration,        \* chat's local iteration
    pending,          \* the tool calls of the response still to be processed
    result,           \* how the last chat call ended and what it returned
    HAS_JSON_REPAIR,  \* whether the json_repair import succeeded
    next_id,          \* the backend's count of tool-call identifiers issued
    turns,            \* number of chat calls made
    backend_calls,    \* backend invocations of the current turn
    sent,             \* the transcript given to the turn's latest backend call
    invoked,          \* the handler invocations of the current turn, in order
    parsed            \* the latest call of parse_json_from_llm: text and value

vars == <<messages, pc, iteration, pending, result, HAS_JSON_REPAIR, next_id,
          turns, backend_calls, sent, invoked, parsed>>

max_history == 5
max_tool_iterations == 5
available_functions == {"manage_memory", "get_time"}

NoneContent == <<"<None>">>
Entry(role, content, tool_calls, tool_call_id) ==
    [role |-> role, content |-> content, tool_calls |-> tool_calls,
     tool_call_id |-> tool_call_id]
SystemMsg == Entry("system", <<"You are a research agent with long-term memory.">>, <<>>, 0)
UserMsg(user_input) == Entry("user", user_input, <<>>, 0)
ToolMsg(id, content) == Entry("tool", content, <<>>, id)
\* response_msg.model_dump()
model_dump(response_msg) ==
    Entry("assistant", response_msg.content, response_msg.tool_calls, 0)
Advisory == <<"Task too long, terminated.">>

\* str(x) of a text or of None
str(content) == IF content = NoneContent THEN <<"None">> ELSE content
\* a value formatted into an f-string
Format(x) ==
    IF x.t \in {"str", "num"} THEN (IF x.v = "" THEN <<>> ELSE <<x.v>>)
    ELSE <<"<repr>">>

\* the indices of the entries of role user, ascending
UserIndices(msgs) ==
    LET F[k \in 0..Len(msgs)] ==
            IF k = 0 THEN <<>>
            ELSE IF msgs[k].role = "user" THEN Append(F[k - 1], k) ELSE F[k - 1]
    IN F[Len(msgs)]

\* Variants of _manage_history with a slip: a cut by position instead of by
\* user entry, a cut one round too early, and a cut that loses the system
\* entry.
manage_history_Slice(msgs) ==
    IF Len(msgs) < max_history * 4 THEN msgs
    ELSE <<msgs[1]>> \o SubSeq(msgs, Len(msgs) - max_history * 2 + 1, Len(msgs))
manage_history_OneMore(msgs) ==
    IF Len(msgs) < max_history * 4 THEN msgs
    ELSE LET user_indices == UserIndices(msgs)
         IN IF Len(user_indices) > max_history
            THEN <<msgs[1]>> \o SubSeq(msgs, user_indices[Len(user_indices) - max_history],
                                       Len(msgs))
            ELSE msgs
manage_history_NoSystem(msgs) ==
    IF Len(msgs) < max_history * 4 THEN msgs
    ELSE LET user_indices == UserIndices(msgs)
         IN IF Len(user_indices) > max_history
            THEN SubSeq(msgs, user_indices[Len(user_indices) - max_history + 1], Len(msgs))
            ELSE msgs

\* Variant of _manage_history without the test of the transcript's length
manage_history_NoThreshold(msgs) ==
    LET user_indices == UserIndices(msgs)
    IN IF Len(user_indices) > max_history
       THEN <<msgs[1]>> \o SubSeq(msgs, user_indices[Len(user_indices) - max_history + 1],
                                  Len(msgs))
       ELSE msgs

\* Variant of _manage_history whose test lets a transcript of exactly
\* max_history * 4 entries pass
manage_history_LateThreshold(msgs) ==
    IF Len(msgs) <= max_history * 4 THEN msgs
    ELSE LET user_indices == UserIndices(msgs)
         IN IF Len(user_indices) > max_history
            THEN <<msgs[1]>> \o SubSeq(msgs, user_indices[Len(user_indices) - max_history + 1],
                                       Len(msgs))
            ELSE msgs

\* Agent._manage_history: the transcript it leaves
manage_history(msgs) ==
    IF Len(msgs) < max_history * 4 THEN msgs
    ELSE LET system_msg == IF Len(msgs) > 0 /\ msgs[1].role = "system"
                           THEN <<msgs[1]>> ELSE <<>>
             user_indices == UserIndices(msgs)
         IN IF Len(user_indices) > max_history
            THEN LET cutoff_index == user_indices[Len(user_indices) - max_history + 1]
                     new_history == SubSeq(msgs, cutoff_index, Len(msgs))
                 IN system_msg \o new_history
            ELSE msgs

\* The tool handlers: each outcome is a returned text or a raised exception.
Returns(text) == [raised |-> FALSE, text |-> text]
Raises(text) == [raised |-> TRUE, text |-> text]
\* AgentMemory.write / AgentMemory.read: the file operations may fail
memory_write(content) == {Returns(<<"recorded: ">> \o Format(content)), Raises(<<"OSError">>)}
memory_read(query) == {Returns(<<"<memory json>">>), Raises(<<"OSError">>)}
tool_manage_memory(args) ==
    LET action == DictGet(args, "\"action\"", PyNone)
        content == DictGet(args, "\"content\"", PyStr(""))
    IN IF action = PyStr("\"write\"") THEN memory_write(content)
       ELSE IF action = PyStr("\"read\"") THEN memory_read(content)
       ELSE {Returns(<<"unknown operation">>)}
tool_get_time(args) == {Returns(<<"<now>">>)}
CallHandler(func_name, func_args) ==
    IF func_name = "manage_memory" THEN tool_manage_memory(func_args)
    ELSE tool_get_time(func_args)

Init ==
    /\ messages = <<SystemMsg>>
    /\ pc = "idle"
    /\ iteration = 0
    /\ pending = <<>>
    /\ result = [how |-> "none", text |-> <<>>]
    /\ HAS_JSON_REPAIR \in BOOLEAN
    /\ next_id = 0
    /\ turns = 0
    /\ backend_calls = 0
    /\ sent = <<>>
    /\ invoked = <<>>
    /\ parsed = <<>>

\* Variant of chat's beginning that keeps the iteration count of the turn
\* before
Chat_NoReset(user_input) ==
    /\ pc = "idle"
    /\ messages' = Append(manage_history(messages), UserMsg(user_input))
    /\ pc' = "loop"
    /\ turns' = turns + 1
    /\ backend_calls' = 0
    /\ sent' = <<>>
    /\ invoked' = <<>>
    /\ result' = [how |-> "none", text |-> <<>>]
    /\ UNCHANGED <<iteration, pending, HAS_JSON_REPAIR, next_id, parsed>>

\* Variant of chat's beginning that appends the user entry before it
\* compacts
Chat_AppendFirst(user_input) ==
    /\ pc = "idle"
    /\ messages' = manage_history(Append(messages, UserMsg(user_input)))
    /\ iteration' = 0
    /\ pc' = "loop"
    /\ turns' = turns + 1
    /\ backend_calls' = 0
    /\ sent' = <<>>
    /\ invoked' = <<>>
    /\ result' = [how |-> "none", text |-> <<>>]
    /\ UNCHANGED <<pending, HAS_JSON_REPAIR, next_id, parsed>>

\* chat(user_input) up to the first test of the while loop
Chat(user_input) ==
    /\ pc = "idle"
    /\ messages' = Append(manage_history(messages), UserMsg(user_input))
    /\ iteration' = 0
    /\ pc' = "loop"
    /\ turns' = turns + 1
    /\ backend_calls' = 0
    /\ sent' = <<>>
    /\ invoked' = <<>>
    /\ result' = [how |-> "none", text |-> <<>>]
    /\ UNCHANGED <<pending, HAS_JSON_REPAIR, next_id, parsed>>

\* Variant of the failing backend call in which chat catches the failure and
\* tries again
BackendFails_Retry ==
    /\ pc = "loop"
    /\ iteration < max_tool_iterations
    /\ backend_calls' = backend_calls + 1
    /\ sent' = messages
    /\ UNCHANGED <<messages, pc, iteration, pending, result, HAS_JSON_REPAIR, next_id,
                   turns, invoked, parsed>>

\* Variant of the failing backend call in which chat takes the entries of the
\* turn back out of the transcript before it propagates the failure
BackendFails_Rollback ==
    /\ pc = "loop"
    /\ iteration < max_tool_iterations
    /\ backend_calls' = backend_calls + 1
    /\ sent' = messages
    /\ messages' = SubSeq(messages, 1,
                       UserIndices(messages)[Len(UserIndices(messages))] - 1)
    /\ result' = [how |-> "raised", text |-> <<"APIError">>]
    /\ pc' = "idle"
    /\ UNCHANGED <<iteration, pending, HAS_JSON_REPAIR, next_id, turns, invoked, parsed>>

\* client.chat.completions.create raises: chat propagates it
BackendFails ==
    /\ pc = "loop"
    /\ iteration < max_tool_iterations
    /\ backend_calls' = backend_calls + 1
    /\ sent' = messages
    /\ result' = [how |-> "raised", text |-> <<"APIError">>]
    /\ pc' = "idle"
    /\ UNCHANGED <<messages, iteration, pending, HAS_JSON_REPAIR, next_id, turns, invoked, parsed>>

\* Variant of the plain-answer branch that lacks the return
ModelReplies_NoReturn(content) ==
    /\ pc = "loop"
    /\ iteration < max_tool_iterations
    /\ backend_calls' = backend_calls + 1
    /\ sent' = messages
    /\ messages' = Append(messages, model_dump([content |-> content, tool_calls |-> <<>>]))
    /\ UNCHANGED <<pc, iteration, result, pending, HAS_JSON_REPAIR, next_id, turns,
                   invoked, parsed>>

\* Variant of the plain-answer branch that compacts the transcript before
\* it returns
ModelReplies_Compacts(content) ==
    /\ pc = "loop"
    /\ iteration < max_tool_iterations
    /\ backend_calls' = backend_calls + 1
    /\ sent' = messages
    /\ messages' = manage_history(
           Append(messages, model_dump([content |-> content, tool_calls |-> <<>>])))
    /\ result' = [how |-> "reply", text |-> str(content)]
    /\ pc' = "idle"
    /\ UNCHANGED <<iteration, pending, HAS_JSON_REPAIR, next_id, turns, invoked, parsed>>

\* the backend answers without tool calls: chat returns str(content)
ModelReplies(content) ==
    /\ pc = "loop"
    /\ iteration < max_tool_iterations
    /\ backend_calls' = backend_calls + 1
    /\ sent' = messages
    /\ messages' = Append(messages, model_dump([content |-> content, tool_calls |-> <<>>]))
    /\ result' = [how |-> "reply", text |-> str(content)]
    /\ pc' = "idle"
    /\ UNCHANGED <<iteration, pending, HAS_JSON_REPAIR, next_id, turns, invoked, parsed>>

\* the identifiers the backend gives to the requests of one response
WithIds(requests, base) ==
    [k \in 1..Len(requests) |->
        [id |-> base + k, name |-> requests[k][1], arguments |-> requests[k][2]]]

\* Variant of the tool-call branch that does not count the round
ModelRequestsTools_NoCount(requests) ==
    /\ pc = "loop"
    /\ iteration < max_tool_iterations
    /\ Len(requests) > 0
    /\ backend_calls' = backend_calls + 1
    /\ sent' = messages
    /\ LET tool_calls == WithIds(requests, next_id)
       IN /\ messages' = Append(messages,
                 model_dump([content |-> NoneContent, tool_calls |-> tool_calls]))
          /\ pending' = tool_calls
    /\ next_id' = next_id + Len(requests)
    /\ pc' = "tools"
    /\ UNCHANGED <<iteration, result, HAS_JSON_REPAIR, turns, invoked, parsed>>

\* Variant of the tool-call branch that does not append the response
ModelRequestsTools_NoAppend(requests) ==
    /\ pc = "loop"
    /\ iteration < max_tool_iterations
    /\ Len(requests) > 0
    /\ backend_calls' = backend_calls + 1
    /\ sent' = messages
    /\ pending' = WithIds(requests, next_id)
    /\ next_id' = next_id + Len(requests)
    /\ iteration' = iteration + 1
    /\ pc' = "tools"
    /\ UNCHANGED <<messages, result, HAS_JSON_REPAIR, turns, invoked, parsed>>

\* the backend answers with tool calls: chat enters the for loop
ModelRequestsTools(requests) ==
    /\ pc = "loop"
    /\ iteration < max_tool_iterations
    /\ Len(requests) > 0
    /\ backend_calls' = backend_calls + 1
    /\ sent' = messages
    /\ LET tool_calls == WithIds(requests, next_id)
       IN /\ messages' = Append(messages,
                 model_dump([content |-> NoneContent, tool_calls |-> tool_calls]))
          /\ pending' = tool_calls
    /\ next_id' = next_id + Len(requests)
    /\ iteration' = iteration + 1
    /\ pc' = "tools"
    /\ UNCHANGED <<result, HAS_JSON_REPAIR, turns, invoked, parsed>>

\* Variant of the for loop's pass that returns after the round instead of
\* continuing the while loop
ToolStep_NoContinue(tool_call, func_args, func_result, handled) ==
    /\ messages' = Append(messages, ToolMsg(tool_call.id, str(func_result)))
    /\ parsed' = <<[raw_text |-> tool_call.arguments, value |-> func_args]>>
    /\ invoked' = invoked \o handled
    /\ pending' = Tail(pending)
    /\ pc' = IF Tail(pending) = <<>> THEN "idle" ELSE "tools"
    /\ result' = IF Tail(pending) = <<>> THEN [how |-> "reply", text |-> str(func_result)]
                 ELSE result
    /\ UNCHANGED <<iteration, HAS_JSON_REPAIR, next_id, turns, backend_calls, sent>>

\* one pass of the for loop: the tool entry appended for tool_call, and the
\* handler invocation made (none when handled is empty)
ToolStep(tool_call, func_args, func_result, handled) ==
    /\ messages' = Append(messages, ToolMsg(tool_call.id, str(func_result)))
    /\ parsed' = <<[raw_text |-> tool_call.arguments, value |-> func_args]>>
    /\ invoked' = invoked \o handled
    /\ pending' = Tail(pending)
    /\ pc' = IF Tail(pending) = <<>> THEN "loop" ELSE "tools"
    /\ UNCHANGED <<iteration, result, HAS_JSON_REPAIR, next_id, turns, backend_calls, sent>>

\* Variants of the for loop's body: one without the try/except around the
\* handler, one without the lookup in available_functions
ExecTool_NoExcept ==
    /\ pc = "tools"
    /\ pending # <<>>
    /\ LET tool_call == Head(pending)
           func_name == tool_call.name
           raw_args == tool_call.arguments
       IN \E repaired \in RepairOutcomes(raw_args) :
          LET func_args == parse_json_from_llm(raw_args, HAS_JSON_REPAIR, repaired)
          IN IF func_name \in available_functions
             THEN \E out \in CallHandler(func_name, func_args) :
                    LET handled == <<[id |-> tool_call.id, name |-> func_name,
                                      args |-> func_args, raised |-> out.raised,
                                      text |-> out.text]>>
                    IN IF out.raised
                       THEN /\ pc' = "idle"
                            /\ result' = [how |-> "raised", text |-> out.text]
                            /\ invoked' = invoked \o handled
                            /\ parsed' = <<[raw_text |-> raw_args, value |-> func_args]>>
                            /\ UNCHANGED <<messages, iteration, pending, HAS_JSON_REPAIR,
                                           next_id, turns, backend_calls, sent>>
                       ELSE ToolStep(tool_call, func_args, out.text, handled)
             ELSE ToolStep(tool_call, func_args, <<"Error: Tool not found.">>, <<>>)
ExecTool_NoLookup ==
    /\ pc = "tools"
    /\ pending # <<>>
    /\ LET tool_call == Head(pending)
           func_name == tool_call.name
           raw_args == tool_call.arguments
       IN \E repaired \in RepairOutcomes(raw_args) :
          LET func_args == parse_json_from_llm(raw_args, HAS_JSON_REPAIR, repaired)
          IN \E out \in CallHandler(func_name, func_args) :
                ToolStep(tool_call, func_args,
                    IF out.raised THEN <<"Error: ">> \o out.text ELSE out.text,
                    <<[id |-> tool_call.id, name |-> func_name, args |-> func_args,
                       raised |-> out.raised, text |-> out.text]>>)

\* Variant of the for loop that takes the requests from the last to the first
ExecTool_LastFirst ==
    /\ pc = "tools"
    /\ pending # <<>>
    /\ LET tool_call == pending[Len(pending)]
           func_name == tool_call.name
           raw_args == tool_call.arguments
           rest == SubSeq(pending, 1, Len(pending) - 1)
       IN \E repaired \in RepairOutcomes(raw_args) :
          LET func_args == parse_json_from_llm(raw_args, HAS_JSON_REPAIR, repaired)
          IN \E out \in (IF func_name \in available_functions
                         THEN CallHandler(func_name, func_args)
                         ELSE {Returns(<<"Error: Tool not found.">>)}) :
                /\ messages' = Append(messages, ToolMsg(tool_call.id,
                       IF out.raised THEN <<"Error: ">> \o out.text ELSE out.text))
                /\ parsed' = <<[raw_text |-> raw_args, value |-> func_args]>>
                /\ invoked' = IF func_name \in available_functions
                              THEN Append(invoked, [id |-> tool_call.id, name |-> func_name,
                                                    args |-> func_args, raised |-> out.raised,
                                                    text |-> out.text])
                              ELSE invoked
                /\ pending' = rest
                /\ pc' = IF rest = <<>> THEN "loop" ELSE "tools"
                /\ UNCHANGED <<iteration, result, HAS_JSON_REPAIR, next_id, turns,
                               backend_calls, sent>>

\* Variant of the for loop's body that appends nothing for a tool that is
\* not registered
ExecTool_SkipUnknown ==
    /\ pc = "tools"
    /\ pending # <<>>
    /\ LET tool_call == Head(pending)
           func_name == tool_call.name
           raw_args == tool_call.arguments
       IN \E repaired \in RepairOutcomes(raw_args) :
          LET func_args == parse_json_from_llm(raw_args, HAS_JSON_REPAIR, repaired)
          IN IF func_name \in available_functions
             THEN \E out \in CallHandler(func_name, func_args) :
                     ToolStep(tool_call, func_args,
                         IF out.raised THEN <<"Error: ">> \o out.text ELSE out.text,
                         <<[id |-> tool_call.id, name |-> func_name, args |-> func_args,
                            raised |-> out.raised, text |-> out.text]>>)
             ELSE /\ parsed' = <<[raw_text |-> raw_args, value |-> func_args]>>
                  /\ pending' = Tail(pending)
                  /\ pc' = IF Tail(pending) = <<>> THEN "loop" ELSE "tools"
                  /\ UNCHANGED <<messages, iteration, result, HAS_JSON_REPAIR, next_id,
                                 turns, backend_calls, sent, invoked>>

ExecTool ==
    /\ pc = "tools"
    /\ pending # <<>>
    /\ LET tool_call == Head(pending)
           func_name == tool_call.name
           raw_args == tool_call.arguments
       IN \E repaired \in RepairOutcomes(raw_args) :
          LET func_args == parse_json_from_llm(raw_args, HAS_JSON_REPAIR, repaired)
          IN IF func_args = PyNone
             THEN ToolStep(tool_call, func_args,
                      <<"Error: Invalid JSON format. You provided: '">> \o raw_args \o <<"'">>,
                      <<>>)
             ELSE IF func_name \in available_functions
             THEN \E out \in CallHandler(func_name, func_args) :
                     ToolStep(tool_call, func_args,
                         IF out.raised THEN <<"Error: ">> \o out.text ELSE out.text,
                         <<[id |-> tool_call.id, name |-> func_name, args |-> func_args,
                            raised |-> out.raised, text |-> out.text]>>)
             ELSE ToolStep(tool_call, func_args, <<"Error: Tool not found.">>, <<>>)

\* the while test fails: chat returns the advisory message
Exhausted ==
    /\ pc = "loop"
    /\ iteration >= max_tool_iterations
    /\ result' = [how |-> "exhausted", text |-> Advisory]
    /\ pc' = "idle"
    /\ UNCHANGED <<messages, iteration, pending, HAS_JSON_REPAIR, next_id, turns,
                   backend_calls, sent, invoked, parsed>>

\* ------------------------------------------------------------------------
\* The inputs: what the user says and what the backend answers
\* ------------------------------------------------------------------------
Ordinals ==
    <<"1st", "2nd", "3rd", "4th", "5th", "6th", "7th", "8th", "9th", "10th", "11th", "12th",
      "13th", "14th", "15th", "16th", "17th", "18th", "19th", "20th", "21st", "22nd", "23rd",
      "24th">>
UserInputs(n) == {<<"question", Ordinals[n + 1]>>}
ReplyContents == {<<"done">>}
WriteMemory == <<"manage_memory", <<"{", "\"action\"", ":", "\"write\"", "}">>>>
DeleteEverything == <<"delete_everything", <<"{", "}">>>>
NotJson == <<"get_time", <<"not", "json", "at", "all">>>>
GetTime == <<"get_time", <<>>>>
RequestLists ==
    { <<NotJson>>, <<WriteMemory, DeleteEverything>>, <<GetTime, WriteMemory>> }

Next ==
    \/ \E user_input \in UserInputs(turns) : turns < MaxTurns /\ Chat(user_input)
    \/ BackendFails
    \/ \E content \in ReplyContents : ModelReplies(content)
    \/ \E requests \in RequestLists :
          next_id + Len(requests) <= MaxIds /\ ModelRequestsTools(requests)
    \/ ExecTool
    \/ Exhausted

Spec == Init /\ [][Next]_vars

\* Long conversations of an agent that has json_repair: many turns, one kind
\* of answer with tool calls
InitHist == Init /\ HAS_JSON_REPAIR
HistRequestLists == {<<GetTime, DeleteEverything>>}
NextHist ==
    \/ \E user_input \in UserInputs(turns) : turns < MaxHistTurns /\ Chat(user_input)
    \/ BackendFails
    \/ ModelReplies(<<"done">>)
    \/ \E requests \in HistRequestLists :
          next_id + Len(requests) <= MaxHistIds /\ ModelRequestsTools(requests)
    \/ ExecTool
    \/ Exhausted

SpecHist == InitHist /\ [][NextHist]_vars

\* Very long conversations: many turns, each ended by a backend failure or
\* by a plain answer; in the first turns the backend may also ask for a
\* tool, up to exhaustion
MaxLongTurns == 20
MaxToolTurns == 1
MaxLongIds == 5
LongRequestLists == {<<GetTime>>}
NextLong ==
    \/ \E user_input \in UserInputs(turns) : turns < MaxLongTurns /\ Chat(user_input)
    \/ BackendFails
    \/ ModelReplies(<<"done">>)
    \/ \E requests \in LongRequestLists :
          /\ turns <= MaxToolTurns
          /\ next_id + Len(requests) <= MaxLongIds
          /\ ModelRequestsTools(requests)
    \/ ExecTool
    \/ Exhausted
SpecLong == InitHist /\ [][NextLong]_vars

\* The normalizer on serialized objects: a round in which the backend asked
\* for one tool with the serialized form of an object as its arguments
MaxMembers == 2
ObjKeys == {"\"action\"", "\"content\"", "\"hi\""}
Leaves ==
    {PyStr(s) : s \in {"\"write\"", "\"hello\""} \cup LongStrs}
        \cup {PyNum("3"), PyList(<<>>), EmptyDict}
Values ==
    Leaves \cup {PyList(<<a>>) : a \in Leaves}
           \cup {PyDict([k \in {"\"content\""} |-> a]) : a \in Leaves}
Objects ==
    {PyDict(f) : f \in UNION {[K -> Values] :
                     K \in {S \in SUBSET ObjKeys : Cardinality(S) <= MaxMembers}}}
InitNorm ==
    \E x \in Objects :
        LET tool_calls == WithIds(<<<<"get_time", json_dumps(x)>>>>, 0)
            asked == <<SystemMsg, UserMsg(<<"question", Ordinals[1]>>)>>
        IN /\ messages = Append(asked,
                  model_dump([content |-> NoneContent, tool_calls |-> tool_calls]))
           /\ pc = "tools"
           /\ iteration = 1
           /\ pending = tool_calls
           /\ result = [how |-> "none", text |-> <<>>]
           /\ HAS_JSON_REPAIR \in BOOLEAN
           /\ next_id = 1
           /\ turns = 1
           /\ backend_calls = 1
           /\ sent = asked
           /\ invoked = <<>>
           /\ parsed = <<>>
NextNorm == ExecTool
SpecNorm == InitNorm /\ [][NextNorm]_vars

\* ------------------------------------------------------------------------
\* Vocabulary of the properties
\* ------------------------------------------------------------------------
Indices(role) == {i \in 1..Len(messages) : messages[i].role = role}
UserCount(msgs) == Len(UserIndices(msgs))
\* the index of the user entry of the latest turn
TurnStart == IF Indices("user") = {} THEN 0 ELSE Max(Indices("user"))
TurnEntries(role) == {i \in Indices(role) : i > TurnStart}
\* the round of the turn that entry i belongs to
RoundOf(i) == Cardinality({j \in TurnEntries("assistant") : j <= i})
CallIds(entry) == {entry.tool_calls[k].id : k \in 1..Len(entry.tool_calls)}
ToolEntriesFor(id) == {i \in Indices("tool") : messages[i].tool_call_id = id}
InvokedIds == {invoked[k].id : k \in 1..Len(invoked)}
PendingIds == {pending[k].id : k \in 1..Len(pending)}
Contains(text, piece) ==
    \E k \in 0..(Len(text) - Len(piece)) : SubSeq(text, k + 1, k + Len(piece)) = piece
TurnOver == pc = "idle" /\ turns > 0
\* entry i was in the transcript given to the turn's latest backend call
InSent(i) == i <= Len(sent) /\ sent[i] = messages[i]
\* a compaction has dropped user entries
Compacted == turns > UserCount(messages)

\* C1: a turn in which every backend response carried tool calls makes one
\* backend call per round, never more than max_tool_iterations, and ends,
\* without raising, after exactly max_tool_iterations backend calls with the
\* advisory message.
AllResponsesRequestTools ==
    /\ turns > 0
    /\ result.how # "raised"
    /\ \A i \in TurnEntries("assistant") : messages[i].tool_calls # <<>>
C1_IterationBound ==
    AllResponsesRequestTools =>
        /\ backend_calls = iteration
        /\ backend_calls = Cardinality(TurnEntries("assistant"))
        /\ backend_calls <= max_tool_iterations
        /\ pc = "loop" /\ iteration = max_tool_iterations => ENABLED Exhausted
        /\ pc = "idle" =>
              /\ result = [how |-> "exhausted", text |-> Advisory]
              /\ backend_calls = max_tool_iterations
C1_Witness ==
    /\ AllResponsesRequestTools
    /\ pc = "idle"
    /\ result.text = Advisory
    /\ backend_calls = max_tool_iterations

\* C2: every tool entry of the transcript comes after an assistant entry
\* that carries a tool-call request with the same identifier.
C2_RoundAligned ==
    \A i \in Indices("tool") :
        \E j \in Indices("assistant") :
            j < i /\ messages[i].tool_call_id \in CallIds(messages[j])
C2_Witness ==
    /\ Compacted
    /\ Indices("tool") # {}
    /\ result.how \in {"exhausted", "raised"}

\* C3 (as stated): whatever the length of the transcript, a chat call that
\* finds more than max_history user entries keeps the leading system entry
\* and the entries from the max_history-th last user entry on, and leaves
\* the transcript alone otherwise.
UsersIn(m, from) == {i \in from..Len(m) : m[i].role = "user"}
SystemPrefix(m) == IF Len(m) > 0 /\ m[1].role = "system" THEN <<m[1]>> ELSE <<>>
KeptFrom(m) ==
    CHOOSE c \in UsersIn(m, 1) : Cardinality(UsersIn(m, c)) = max_history
LastRounds(m) == SystemPrefix(m) \o SubSeq(m, KeptFrom(m), Len(m))
ChatBegins == pc = "idle" /\ pc' = "loop"
BeforeUserEntry(m) == SubSeq(m, 1, Len(m) - 1)
C3_Original ==
    [][ChatBegins =>
          BeforeUserEntry(messages') =
              IF Cardinality(UsersIn(messages, 1)) > max_history
              THEN LastRounds(messages) ELSE messages]_vars

\* C3 (amended): a chat call that finds at least max_history * 4 entries, of
\* which more than max_history are user entries, keeps the leading system
\* entry and the entries from the max_history-th last user entry on, so that
\* exactly max_history user entries remain; any other transcript is left
\* alone.
C3_Compaction ==
    [][ChatBegins =>
          /\ BeforeUserEntry(messages') =
                IF /\ Len(messages) >= max_history * 4
                   /\ Cardinality(UsersIn(messages, 1)) > max_history
                THEN LastRounds(messages) ELSE messages
          /\ Len(messages) >= max_history * 4
                => Cardinality(UsersIn(BeforeUserEntry(messages'), 1)) <= max_history]_vars
C3_Witness ==
    /\ pc = "loop"
    /\ backend_calls = 0
    /\ Compacted
    /\ UserCount(messages) = max_history + 1
    /\ Indices("tool") # {}

\* C4 (as stated): a request whose argument text holds no object at all gets
\* a tool entry that embeds the text, and no handler is invoked for it.
Malformed(raw_text) ==
    /\ raw_text # <<>>
    /\ \A k \in 1..Len(raw_text) : raw_text[k] \in WordToks
C4_Claim ==
    \A j \in TurnEntries("assistant") : \A k \in 1..Len(messages[j].tool_calls) :
        LET call == messages[j].tool_calls[k] IN
        Malformed(call.arguments) =>
            /\ call.id \notin InvokedIds
            /\ \A i \in ToolEntriesFor(call.id) :
                   Contains(messages[i].content, call.arguments)

\* C5 (as stated): the normalizer gives the empty object for empty text and
\* a failure value, different from the empty object, for text that holds
\* no object.
C5_Claim ==
    \A k \in 1..Len(parsed) :
        /\ parsed[k].raw_text = <<>> => parsed[k].value = EmptyDict
        /\ Malformed(parsed[k].raw_text) => parsed[k].value # EmptyDict

\* C6: when a handler raises, the tool entry of the request carries the
\* failure description, the other requests of the round are still processed,
\* and chat does not end by raising that failure.
C6_ToolFailureContained ==
    \A k \in 1..Len(invoked) :
        invoked[k].raised =>
            /\ \E i \in TurnEntries("tool") :
                  /\ messages[i].tool_call_id = invoked[k].id
                  /\ Contains(messages[i].content, invoked[k].text)
            /\ \A j \in TurnEntries("assistant") :
                  invoked[k].id \in CallIds(messages[j]) =>
                      \A id \in CallIds(messages[j]) :
                          id \in PendingIds \/ ToolEntriesFor(id) # {}
            /\ result.how = "raised" => result.text # invoked[k].text
            /\ pc = "idle" => result.how \in {"reply", "exhausted", "raised"}
C6_Witness ==
    /\ pc = "idle"
    /\ result.how = "reply"
    /\ \E j \in TurnEntries("assistant") :
          /\ Len(messages[j].tool_calls) = 2
          /\ \E k \in 1..Len(invoked) :
                invoked[k].raised /\ invoked[k].id = messages[j].tool_calls[1].id
          /\ ToolEntriesFor(messages[j].tool_calls[2].id) # {}

\* C7: a request for a tool that is not registered invokes no handler and
\* gets one tool entry saying that the tool was not found; chat goes on to
\* the loop test and does not return because of it.
NotFound == <<"Error: Tool not found.">>
C7_UnknownTool ==
    \A j \in TurnEntries("assistant") : \A k \in 1..Len(messages[j].tool_calls) :
        LET call == messages[j].tool_calls[k] IN
        call.name \notin available_functions =>
            /\ call.id \notin InvokedIds
            /\ \/ call.id \in PendingIds /\ ToolEntriesFor(call.id) = {}
               \/ /\ call.id \notin PendingIds
                  /\ Cardinality(ToolEntriesFor(call.id)) = 1
                  /\ \A i \in ToolEntriesFor(call.id) :
                        i > j /\ messages[i].content = NotFound
            /\ pc = "idle" /\ messages[Len(messages)].tool_call_id = call.id
                  => \/ result.how = "exhausted"
                     \/ result.how = "raised" /\ sent = messages
C7_Witness ==
    \E i \in TurnEntries("tool") :
        /\ messages[i].content = NotFound
        /\ InSent(i)
        /\ result.how = "reply"

\* C8 (as stated): when a turn is over, every tool entry it appended was in
\* the transcript of one of its backend calls.
C8_Original ==
    TurnOver => \A i \in TurnEntries("tool") : InSent(i)

\* C8 (amended): every tool entry of a round before the max_tool_iterations-th
\* is in the transcript of the next backend call of the turn; the tool
\* entries of the max_tool_iterations-th round are followed by no backend
\* call, the turn ending with the advisory message.
C8_ToolOutcomesReachModel ==
    LET assistants == TurnEntries("assistant")
        round(i) == Cardinality({j \in assistants : j <= i})
    IN \A i \in TurnEntries("tool") :
        LET r == round(i)
            seen == InSent(i)
        IN /\ r < iteration => seen
           /\ r <= max_tool_iterations
           /\ TurnOver =>
                 \/ seen
                 \/ result.how = "exhausted" /\ r = max_tool_iterations
C8_Witness ==
    /\ TurnOver
    /\ result.how = "exhausted"
    /\ \E i \in TurnEntries("tool") : RoundOf(i) = max_tool_iterations - 1 /\ InSent(i)
    /\ \E i \in TurnEntries("tool") : RoundOf(i) = max_tool_iterations /\ ~InSent(i)

\* C9: an answer without tool calls ends the turn at once: it is the last
\* entry, chat has returned its content (not the advisory message), the
\* backend call that gave it is the turn's last, and no handler ran after it.
C9_PlainReplyEndsTurn ==
    \A j \in TurnEntries("assistant") :
        messages[j].tool_calls = <<>> =>
            /\ j = Len(messages)
            /\ pc = "idle"
            /\ result.how = "reply"
            /\ result.text = str(messages[j].content)
            /\ messages[j].content # NoneContent => result.text = messages[j].content
            /\ result.text # Advisory
            /\ sent = SubSeq(messages, 1, j - 1)
            /\ backend_calls = Cardinality(TurnEntries("assistant"))
            /\ \A id \in InvokedIds : \E i \in ToolEntriesFor(id) : i < j
C9_Witness ==
    /\ pc = "idle"
    /\ result = [how |-> "reply", text |-> <<"done">>]
    /\ invoked # <<>>
    /\ backend_calls > 1

\* C10: the first entry of the transcript is the system entry the agent was
\* built with, and it is the only system entry.
C10_SystemFirst ==
    /\ Len(messages) >= 1
    /\ messages[1] = SystemMsg
    /\ Indices("system") = {1}
C10_Witness ==
    /\ Compacted
    /\ messages[1] = SystemMsg
    /\ Len(messages) > max_history + 2

\* C11: a chat call changes the entries it finds only when it finds at least
\* max_history * 4 of them; a shorter transcript is kept whole, the user
\* entry appended to it, even when it holds more than max_history user
\* entries.
C11_ThresholdGuardsCompaction ==
    [][ChatBegins =>
          /\ Len(messages) < max_history * 4 =>
                /\ BeforeUserEntry(messages') = messages
                /\ UserCount(messages') = UserCount(messages) + 1
          /\ Len(messages') < Len(messages) + 1 => Len(messages) >= max_history * 4]_vars
C11_Witness ==
    /\ pc = "loop"
    /\ backend_calls = 0
    /\ Len(messages) - 1 < max_history * 4
    /\ UserCount(messages) > max_history + 1
    /\ ~Compacted

\* C12: a chat call makes at most max_tool_iterations backend calls; every
\* chat call starts with the iteration count at zero, however the turn
\* before ended, and the count stays within 0..max_tool_iterations.
C12_FreshIterationBound ==
    [][/\ ChatBegins => iteration' = 0 /\ backend_calls' = 0
       /\ iteration \in 0..max_tool_iterations
       /\ iteration' \in 0..max_tool_iterations
       /\ iteration' \in {0, iteration, iteration + 1}
       /\ backend_calls' <= max_tool_iterations
       /\ backend_calls' > backend_calls => iteration < max_tool_iterations]_vars
C12_Witness ==
    /\ turns >= 2
    /\ messages[2].role = "user" /\ messages[3].role = "user"
    /\ pc = "idle"
    /\ result.how = "exhausted"
    /\ iteration = max_tool_iterations
    /\ backend_calls = max_tool_iterations

\* C13: a chat call first compacts the transcript it finds, then appends the
\* user entry, and only then calls the backend: what it decides and keeps
\* is decided on the transcript without the new user entry, and the
\* transcript given to the turn's first backend call ends with the turn's
\* user entry.
TurnUserMsg(n) == UserMsg(<<"question", Ordinals[n]>>)
FirstBackendCall == backend_calls = 0 /\ backend_calls' = 1
C13_EffectOrder ==
    [][/\ ChatBegins =>
             /\ messages'[Len(messages')] = TurnUserMsg(turns')
             /\ BeforeUserEntry(messages') =
                   IF /\ Len(messages) >= max_history * 4
                      /\ Cardinality(UsersIn(messages, 1)) > max_history
                   THEN LastRounds(messages) ELSE messages
             /\ backend_calls' = 0
             /\ sent' = <<>>
       /\ FirstBackendCall =>
             /\ sent' = messages
             /\ sent'[Len(sent')] = TurnUserMsg(turns)
             /\ Len(sent') = TurnStart]_vars
C13_Witness ==
    /\ backend_calls = 1
    /\ Compacted
    /\ Len(messages) > Len(sent)
    /\ sent[Len(sent)] = TurnUserMsg(turns)
    /\ sent[Len(sent) - 1].role = "tool"

\* C14: every backend call that returns is followed at once by one assistant
\* entry for its response, with or without tool calls, appended before any
\* of the response's requests is processed; the assistant entries of a turn
\* are as many as the backend calls that returned in it.
ReturnedCalls == backend_calls - (IF result.how = "raised" THEN 1 ELSE 0)
C14_OneAssistantPerResponse ==
    LET assistants == TurnEntries("assistant")
        requested == UNION {CallIds(messages[j]) : j \in assistants}
    IN /\ turns > 0 => Cardinality(assistants) = ReturnedCalls
       /\ ReturnedCalls > 0 /\ result.how # "raised" =>
             /\ Len(messages) > Len(sent)
             /\ messages[Len(sent) + 1].role = "assistant"
             /\ \A i \in (Len(sent) + 2)..Len(messages) :
                    /\ messages[i].role = "tool"
                    /\ messages[i].tool_call_id \in CallIds(messages[Len(sent) + 1])
       /\ InvokedIds \subseteq requested
       /\ PendingIds \subseteq requested
       /\ \A i \in TurnEntries("tool") :
             \E j \in assistants : j < i /\ messages[i].tool_call_id \in CallIds(messages[j])
C14_Witness ==
    /\ pc = "idle"
    /\ result.how = "reply"
    /\ backend_calls = 3
    /\ Cardinality(TurnEntries("assistant")) = 3
    /\ Cardinality(TurnEntries("tool")) = 3
    /\ messages[Len(messages)].tool_calls = <<>>

\* C15: the requests of a round are processed one after the other in the
\* order of the response: the tool entries of the round follow its
\* assistant entry in the order of the requests, the handlers are invoked
\* in that order, each after the entries of the requests before it are
\* appended, and the backend is not called while requests of the round
\* are still to be processed.
LastAssistant == Max(TurnEntries("assistant") \cup {0})
C15_SequentialInOrder ==
    LET assistants == TurnEntries("assistant")
        tools == TurnEntries("tool")
        EntriesOf(id) == {i \in tools : messages[i].tool_call_id = id}
    IN /\ \A j \in assistants :
             LET tool_calls == messages[j].tool_calls
                 inRound == pc = "tools" /\ j = Max(assistants)
                 n == IF inRound THEN Len(tool_calls) - Len(pending) ELSE Len(tool_calls)
             IN /\ n >= 0 /\ j + n <= Len(messages)
                /\ \A k \in 1..n :
                      /\ messages[j + k].role = "tool"
                      /\ messages[j + k].tool_call_id = tool_calls[k].id
                /\ j + n < Len(messages) => messages[j + n + 1].role = "assistant"
                /\ inRound => pending = SubSeq(tool_calls, n + 1, Len(tool_calls))
       /\ \A a \in 1..Len(invoked) :
             /\ Cardinality(EntriesOf(invoked[a].id)) = 1
             /\ a < Len(invoked) =>
                   \A i \in EntriesOf(invoked[a].id) :
                      \A i2 \in EntriesOf(invoked[a + 1].id) : i < i2
       /\ pc = "tools" =>
             /\ pending # <<>>
             /\ sent = SubSeq(messages, 1, LastAssistant - 1)
             /\ ~ENABLED BackendFails
             /\ ~ENABLED Exhausted
C15_Witness ==
    /\ pc = "loop"
    /\ Len(invoked) = 2
    /\ invoked[1].id + 1 = invoked[2].id
    /\ Len(messages) = LastAssistant + 2
    /\ messages[LastAssistant].tool_calls[1].id = invoked[1].id
    /\ messages[LastAssistant].tool_calls[2].id = invoked[2].id
    /\ messages[LastAssistant + 1].tool_call_id = invoked[1].id
    /\ messages[LastAssistant + 2].tool_call_id = invoked[2].id

\* C16: from the append of the user entry to the end of the chat call the
\* transcript only grows at its end: each step of the turn leaves the
\* transcript it found as a prefix of the one it leaves, by at most one
\* entry more, and so does the transcript given to the backend; entries
\* disappear only in the step that begins a chat call.
IsPrefix(a, b) == Len(a) <= Len(b) /\ SubSeq(b, 1, Len(a)) = a
C16_GrowsByAppends ==
    [][/\ ~ChatBegins =>
             /\ IsPrefix(messages, messages')
             /\ Len(messages') <= Len(messages) + 1
             /\ IsPrefix(sent, sent')
             /\ IsPrefix(sent', messages')
             /\ turns' = turns
       /\ ~IsPrefix(messages, messages') =>
             /\ ChatBegins
             /\ Len(messages) >= max_history * 4
             /\ BeforeUserEntry(messages') = LastRounds(messages)]_vars
C16_Witness ==
    /\ Compacted
    /\ pc = "idle"
    /\ result.how = "reply"
    /\ Len(messages) >= max_history * 4
    /\ Len(sent) >= TurnStart + 3
    /\ IsPrefix(sent, messages)

\* C17: a backend call that fails ends the chat call with that failure
\* raised to the caller: nothing is appended for it, and the next thing
\* the agent does is a new chat call, so the failed call is followed in its
\* turn by no backend call and no handler invocation.
BackendCallFailed == backend_calls' = backend_calls + 1 /\ messages' = messages
C17_BackendFailureEndsTurn ==
    [][/\ BackendCallFailed =>
             /\ pc' = "idle"
             /\ result' = [how |-> "raised", text |-> <<"APIError">>]
             /\ sent' = messages
             /\ invoked' = invoked
             /\ pending' = <<>>
       /\ result.how = "raised" =>
             /\ pc = "idle"
             /\ sent = messages
             /\ ~ENABLED BackendFails
             /\ ~ENABLED ExecTool
             /\ ChatBegins
             /\ backend_calls' = 0
             /\ invoked' = <<>>]_vars
C17_Witness ==
    /\ turns >= 2
    /\ pc = "idle"
    /\ result.how = "raised"
    /\ backend_calls >= 2
    /\ invoked # <<>>
    /\ sent = messages
    /\ messages[Len(messages)].role = "tool"

\* C18 (as stated): the normalizer applied to the serialized form of a
\* structured object gives that object back.
C18_Claim ==
    \A k \in 1..Len(parsed) : \A x \in Objects :
        parsed[k].raw_text = json_dumps(x) => parsed[k].value = x

\* C19: whenever chat is about to call the backend and whenever it has
\* returned, every request of every assistant entry of the turn has exactly
\* one tool entry with its identifier, placed after that assistant entry,
\* and the tool entries of each round are as many as the requests of the
\* round's response.  (The backend gives every request its own identifier.)
C19_EveryRequestAnswered ==
    pc # "tools" =>
        LET assistants == TurnEntries("assistant")
            tools == Indices("tool")
        IN \A j \in assistants :
            LET later == {a \in assistants : a > j}
                stop == IF later = {} THEN Len(messages) + 1 ELSE Min(later)
                round == {i \in tools : j < i /\ i < stop}
                ids == CallIds(messages[j])
            IN /\ \A id \in ids :
                     /\ Cardinality({i \in tools : messages[i].tool_call_id = id}) = 1
                     /\ \E i \in round : messages[i].tool_call_id = id
               /\ Cardinality(round) = Len(messages[j].tool_calls)
               /\ Cardinality(ids) = Len(messages[j].tool_calls)
C19_Witness ==
    /\ pc = "idle"
    /\ result.how = "reply"
    /\ Cardinality(TurnEntries("assistant")) = 3
    /\ Cardinality(TurnEntries("tool")) = 3
    /\ \E i \in TurnEntries("tool") : messages[i].content = NotFound
    /\ \E i \in TurnEntries("tool") : Contains(messages[i].content, <<"Error: ">>)

\* C20: whatever chat calls were made and however they ended, the transcript
\* of an agent built with the system entry holds at most 4 * max_history - 1
\* user entries; one that holds that many holds, before them, the system
\* entry alone.
C20_UserEntriesBounded ==
    /\ UserCount(messages) <= 4 * max_history - 1
    /\ UserCount(messages) <= Len(messages) - 1
    /\ UserCount(messages) = 4 * max_history - 1 => TurnStart = 4 * max_history
C20_Witness ==
    /\ UserCount(messages) = 4 * max_history - 1
    /\ result.how = "raised"
    /\ pc = "idle"

\* C21: a chat call aborted by a backend failure takes nothing back: the
\* step that fails leaves the transcript as it was, and the next chat call
\* puts its user entry right after the user entry and the assistant and
\* tool entries of the aborted turn, which may be the user entry alone.
AbortedTurn == SubSeq(messages, TurnStart, Len(messages))
C21_NothingRolledBack ==
    [][/\ pc = "loop" /\ result'.how = "raised" =>
             /\ messages' = messages
             /\ messages'[TurnStart] = TurnUserMsg(turns)
       /\ ChatBegins /\ result.how = "raised" =>
             /\ Len(messages') > Len(AbortedTurn)
             /\ SubSeq(messages', Len(messages') - Len(AbortedTurn), Len(messages') - 1)
                   = AbortedTurn
             /\ messages'[Len(messages')] = TurnUserMsg(turns')
             /\ messages'[Len(messages') - Len(AbortedTurn)] = TurnUserMsg(turns)]_vars
C21_Witness ==
    /\ pc = "loop"
    /\ backend_calls = 0
    /\ Compacted
    /\ messages[Len(messages) - 4].role = "user"
    /\ messages[Len(messages) - 1].role = "tool"
    /\ \E i \in Indices("user") : i + 1 \in Indices("user") /\ i + 1 < Len(messages)

====
